---- MODULE Spec2Model ----
(***************************************************************************)
(* Model of loco-gen/src/model.rs: the column/reference resolver           *)
(* get_columns_and_references and the orchestrator generate.               *)
(*                                                                         *)
(* A text is a sequence of characters; a character is a one-character      *)
(* string (the backquote, which a TLA+ string cannot hold, is the token    *)
(* Backtick).  Splitting, joining, formatting and case conversion are      *)
(* computed on the characters.                                             *)
(***************************************************************************)
EXTENDS Integers, Sequences, FiniteSets, TLC

VARIABLES fields, pc, resolved, calls, gen_result, skipVar, result

vars == <<fields, pc, resolved, calls, gen_result, skipVar, result>>

----------------------------------------------------------------------------
(* Bounds *)

\* the largest number of field specifications of one generate call
MaxFields == 3

----------------------------------------------------------------------------
(* Text *)

Backtick == "BACKTICK"

Digits == <<"0", "1", "2", "3", "4", "5", "6", "7", "8", "9">>

LowerAlpha == <<"a", "b", "c", "d", "e", "f", "g", "h", "i", "j", "k", "l", "m",
                "n", "o", "p", "q", "r", "s", "t", "u", "v", "w", "x", "y", "z">>

UpperAlpha == <<"A", "B", "C", "D", "E", "F", "G", "H", "I", "J", "K", "L", "M",
                "N", "O", "P", "Q", "R", "S", "T", "U", "V", "W", "X", "Y", "Z">>

Range(s) == {s[i] : i \in DOMAIN s}

LowercaseChars == Range(LowerAlpha)

UppercaseChars == Range(UpperAlpha)

DigitChars == Range(Digits)

IsLowercase(c) == c \in LowercaseChars

IsUppercase(c) == c \in UppercaseChars

IsAlphanumeric(c) == IsLowercase(c) \/ IsUppercase(c) \/ c \in DigitChars

IndexOf(s, c) == CHOOSE i \in DOMAIN s : s[i] = c

ToUppercaseChar(c) == IF IsLowercase(c) THEN UpperAlpha[IndexOf(LowerAlpha, c)] ELSE c

ToLowercaseChar(c) == IF IsUppercase(c) THEN LowerAlpha[IndexOf(UpperAlpha, c)] ELSE c

\* the decimal rendering of a natural number ({} of a usize)
RECURSIVE ToDecimal(_)
ToDecimal(n) ==
    IF n < 10 THEN <<Digits[n + 1]>>
    ELSE ToDecimal(n \div 10) \o <<Digits[(n % 10) + 1]>>

\* str::split(sep): the pieces between the separators; the empty text gives
\* one empty piece, a trailing separator gives a trailing empty piece
RECURSIVE SplitFrom(_, _, _, _)
SplitFrom(s, sep, i, cur) ==
    IF i > Len(s) THEN <<cur>>
    ELSE IF s[i] = sep THEN <<cur>> \o SplitFrom(s, sep, i + 1, <<>>)
    ELSE SplitFrom(s, sep, i + 1, Append(cur, s[i]))

Split(s, sep) == SplitFrom(s, sep, 1, <<>>)

\* [T]::join(sep)
RECURSIVE Join(_, _)
Join(parts, sep) ==
    IF Len(parts) = 0 THEN <<>>
    ELSE IF Len(parts) = 1 THEN parts[1]
    ELSE parts[1] \o sep \o Join(Tail(parts), sep)

\* heck: one word of the identifier, first character upper case, the rest lower
Capitalize(w) ==
    IF Len(w) = 0 THEN <<>>
    ELSE <<ToUppercaseChar(w[1])>> \o [i \in 1..(Len(w) - 1) |-> ToLowercaseChar(w[i + 1])]

\* heck: the words of one run of alphanumeric characters.  A word ends after
\* a non-upper-case character that an upper-case one follows, and before the
\* last of a run of upper-case characters that a lower-case one follows.
\* mode is "boundary", "lower" or "upper".
RECURSIVE CamelWords(_, _, _, _)
CamelWords(w, i, init, mode) ==
    IF i > Len(w) THEN <<>>
    ELSE IF i = Len(w) THEN <<Capitalize(SubSeq(w, init, Len(w)))>>
    ELSE LET c == w[i]
             next == w[i + 1]
             next_mode == IF IsLowercase(c) THEN "lower"
                          ELSE IF IsUppercase(c) THEN "upper"
                          ELSE mode
         IN  IF next_mode = "lower" /\ IsUppercase(next)
                 THEN <<Capitalize(SubSeq(w, init, i))>>
                      \o CamelWords(w, i + 1, i + 1, "boundary")
             ELSE IF mode = "upper" /\ IsUppercase(c) /\ IsLowercase(next)
                 THEN <<Capitalize(SubSeq(w, init, i - 1))>>
                      \o CamelWords(w, i + 1, i, "boundary")
             ELSE CamelWords(w, i + 1, init, next_mode)

\* the runs of alphanumeric characters of a text
RECURSIVE AlnumRuns(_, _, _)
AlnumRuns(s, i, cur) ==
    IF i > Len(s) THEN <<cur>>
    ELSE IF IsAlphanumeric(s[i]) THEN AlnumRuns(s, i + 1, Append(cur, s[i]))
    ELSE <<cur>> \o AlnumRuns(s, i + 1, <<>>)

RECURSIVE Concat(_)
Concat(ss) == IF Len(ss) = 0 THEN <<>> ELSE ss[1] \o Concat(Tail(ss))

\* heck::ToUpperCamelCase::to_upper_camel_case
ToUpperCamelCase(s) ==
    LET runs == AlnumRuns(s, 1, <<>>)
    IN  Concat([k \in DOMAIN runs |-> Concat(CamelWords(runs[k], 1, 1, "boundary"))])

----------------------------------------------------------------------------
(* Literals of model.rs *)

created_at == <<"c", "r", "e", "a", "t", "e", "d", "_", "a", "t">>
updated_at == <<"u", "p", "d", "a", "t", "e", "d", "_", "a", "t">>
create_at == <<"c", "r", "e", "a", "t", "e", "_", "a", "t">>
update_at == <<"u", "p", "d", "a", "t", "e", "_", "a", "t">>

IGNORE_FIELDS == <<created_at, updated_at, create_at, update_at>>

KwReferences == <<"r", "e", "f", "e", "r", "e", "n", "c", "e", "s">>
KwReferencesNullable == <<"r", "e", "f", "e", "r", "e", "n", "c", "e", "s", "?">>

ArityMsgHead == <<"t", "y", "p", "e", ":", " ", Backtick>>
ArityMsgRequires == <<Backtick, " ", "r", "e", "q", "u", "i", "r", "e", "s", " ", "s", "p", "e",
    "c", "i", "f", "y", "i", "n", "g", " ">>
ArityMsgParams == <<" ", "p", "a", "r", "a", "m", "e", "t", "e", "r", "s", ",", " ", "b", "u",
    "t", " ", "o", "n", "l", "y", " ">>
ArityMsgGiven == <<" ", "w", "e", "r", "e", " ", "g", "i", "v", "e", "n", " ", "(", Backtick>>
ArityMsgTail == <<Backtick, ")", ".">>
ArrayMsgRequires == <<Backtick, " ", "r", "e", "q", "u", "i", "r", "e", "s", " ", "e", "x", "a",
    "c", "t", "l", "y", " ">>
ArrayMsgParameter == <<" ", "p", "a", "r", "a", "m", "e", "t", "e", "r">>
ArrayMsgBut == <<",", " ", "b", "u", "t", " ">>
ArrayColTypeOpen == <<"(", "A", "r", "r", "a", "y", "C", "o", "l", "T", "y", "p", "e", ":",
    ":">>
MigrateMsgHead == <<"f", "a", "i", "l", "e", "d", " ", "t", "o", " ", "r", "u", "n", " ", "l",
    "o", "c", "o", " ", "d", "b", " ", "m", "i", "g", "r", "a", "t", "i", "o", "n", ".", " ",
    "e", "r", "r", "o", "r", " ", "d", "e", "t", "a", "i", "l", "s", ":", " ", Backtick>>
EntitiesMsgHead == <<"f", "a", "i", "l", "e", "d", " ", "t", "o", " ", "r", "u", "n", " ", "l",
    "o", "c", "o", " ", "d", "b", " ", "e", "n", "t", "i", "t", "i", "e", "s", ".", " ", "e",
    "r", "r", "o", "r", " ", "d", "e", "t", "a", "i", "l", "s", ":", " ", Backtick>>

TyString == <<"s", "t", "r", "i", "n", "g">>
TyStringNN == <<"s", "t", "r", "i", "n", "g", "!">>
TyStringUniq == <<"s", "t", "r", "i", "n", "g", "^">>
TyArray == <<"a", "r", "r", "a", "y">>
TyArrayNN == <<"a", "r", "r", "a", "y", "!">>
TyArrayUniq == <<"a", "r", "r", "a", "y", "^">>
TyDecimalLen == <<"d", "e", "c", "i", "m", "a", "l", "_", "l", "e", "n">>
ColStringNull == <<"S", "t", "r", "i", "n", "g", "N", "u", "l", "l">>
ColString == <<"S", "t", "r", "i", "n", "g">>
ColStringUniq == <<"S", "t", "r", "i", "n", "g", "U", "n", "i", "q">>
ColArrayNull == <<"a", "r", "r", "a", "y", "_", "n", "u", "l", "l">>
ColArray == <<"a", "r", "r", "a", "y">>
ColArrayUniq == <<"a", "r", "r", "a", "y", "_", "u", "n", "i", "q">>
ColDecimalLenNull == <<"D", "e", "c", "i", "m", "a", "l", "L", "e", "n", "N", "u", "l", "l">>

----------------------------------------------------------------------------
(* Result<T> and the errors *)

Ok(v) == [ok |-> TRUE, value |-> v]

Err(e) == [ok |-> FALSE, err |-> e]

\* Error::Message(text)
Message(text) == [kind |-> "Message", text |-> text]

----------------------------------------------------------------------------
(* infer::parse_field_type: the classification of one type annotation *)

FieldType(tag, name, params) == [tag |-> tag, name |-> name, params |-> params]

ParseFieldType(ftype) ==
    LET parts == Split(ftype, ":")
    IN  IF parts = <<KwReferences>>
            THEN Ok(FieldType("Reference", <<>>, <<>>))
        ELSE IF Len(parts) = 2 /\ parts[1] = KwReferences
            THEN Ok(FieldType("ReferenceWithCustomField", parts[2], <<>>))
        ELSE IF parts = <<KwReferencesNullable>>
            THEN Ok(FieldType("NullableReference", <<>>, <<>>))
        ELSE IF Len(parts) = 2 /\ parts[1] = KwReferencesNullable
            THEN Ok(FieldType("NullableReferenceWithCustomField", parts[2], <<>>))
        ELSE IF Len(parts) = 1
            THEN Ok(FieldType("Type", parts[1], <<>>))
        ELSE IF Len(parts) > 1
            THEN Ok(FieldType("TypeWithParameters", parts[1], Tail(parts)))
        ELSE Err([kind |-> "InvalidFieldType", text |-> ftype])

----------------------------------------------------------------------------
(* The type-mapping registry (get_mappings) *)

\* the registry's entries: type name, column-type expression, arity
Mappings ==
    << [name |-> TyString,     col_type |-> ColStringNull,     arity |-> 0],
       [name |-> TyStringNN,   col_type |-> ColString,         arity |-> 0],
       [name |-> TyStringUniq, col_type |-> ColStringUniq,     arity |-> 0],
       [name |-> TyArray,      col_type |-> ColArrayNull,      arity |-> 1],
       [name |-> TyArrayNN,    col_type |-> ColArray,          arity |-> 1],
       [name |-> TyArrayUniq,  col_type |-> ColArrayUniq,      arity |-> 1],
       [name |-> TyDecimalLen, col_type |-> ColDecimalLenNull, arity |-> 2] >>

Recognised(ftype) == \E i \in DOMAIN Mappings : Mappings[i].name = ftype

Entry(ftype) == Mappings[CHOOSE i \in DOMAIN Mappings : Mappings[i].name = ftype]

\* the registry's own message for a type name it does not know
ErrorUnrecognizedDefaultField(field) == [kind |-> "UnrecognizedDefaultField", field |-> field]

ColTypeField(ftype) ==
    IF Recognised(ftype) THEN Ok(Entry(ftype).col_type)
    ELSE Err(ErrorUnrecognizedDefaultField(ftype))

\* Some(arity) or None
ColTypeArity(ftype) ==
    IF Recognised(ftype) /\ Entry(ftype).arity > 0
        THEN [some |-> TRUE, value |-> Entry(ftype).arity]
    ELSE [some |-> FALSE]

UnwrapOrDefault(o) == IF o.some THEN o.value ELSE 0

----------------------------------------------------------------------------
(* get_columns_and_references *)

\* IsIgnored with the list cut to its first two names
IsIgnoredFirstTwo(fname) == \E i \in 1..2 : IGNORE_FIELDS[i] = fname

IsIgnored(fname) == \E i \in DOMAIN IGNORE_FIELDS : IGNORE_FIELDS[i] = fname

\* the message of the parameter-count check
ArityViolationMessage(ftype, arity, params) ==
    ArityMsgHead \o ftype \o ArityMsgRequires \o ToDecimal(arity) \o ArityMsgParams
        \o ToDecimal(Len(params)) \o ArityMsgGiven \o Join(params, <<",">>) \o ArityMsgTail

\* the message of the array arm's own slice match
ArrayArityMessage(ftype, arity, params) ==
    ArityMsgHead \o ftype \o ArrayMsgRequires \o ToDecimal(arity) \o ArrayMsgParameter
        \o (IF arity = 1 THEN <<>> ELSE <<"s">>) \o ArrayMsgBut
        \o ToDecimal(Len(params)) \o ArityMsgGiven \o Join(params, <<",">>) \o ArityMsgTail

IsArrayFamily(ftype) == ftype \in {TyArray, TyArrayUniq, TyArrayNN}

\* ArrayColumn without the case conversion of the element kind
ArrayColumnRaw(col_type, array_kind) ==
    col_type \o ArrayColTypeOpen \o array_kind \o <<")">>

ArrayColumn(col_type, array_kind) ==
    col_type \o ArrayColTypeOpen \o ToUpperCamelCase(array_kind) \o <<")">>

ParamColumn(col_type, params) == col_type \o <<"(">> \o Join(params, <<",">>) \o <<")">>

\* the column expression of a parameterized type whose arity was accepted
ColumnExpression(ftype, col_type, arity, params) ==
    IF IsArrayFamily(ftype)
        THEN IF Len(params) = 1 THEN Ok(ArrayColumn(col_type, params[1]))
             ELSE Err(Message(ArrayArityMessage(ftype, arity, params)))
    ELSE Ok(ParamColumn(col_type, params))

\* what one field adds: at most one column and at most one reference
Adds(columns, references) == [columns |-> columns, references |-> references]

\* ResolveReference with the nullable marker left off the name
ResolveReferenceNoMarker(fname, field_type) ==
    IF field_type.tag \in {"Reference", "NullableReference"}
        THEN [columns |-> <<>>, references |-> << <<fname, <<>> >> >>]
    ELSE [columns |-> <<>>, references |-> << <<fname, field_type.name>> >>]

\* FieldType::Reference and its three variants
ResolveReference(fname, field_type) ==
    CASE field_type.tag = "Reference" ->
            Adds(<<>>, << <<fname, <<>> >> >>)
      [] field_type.tag = "ReferenceWithCustomField" ->
            Adds(<<>>, << <<fname, field_type.name>> >>)
      [] field_type.tag = "NullableReference" ->
            Adds(<<>>, << <<fname \o <<"?">>, <<>> >> >>)
      [] field_type.tag = "NullableReferenceWithCustomField" ->
            Adds(<<>>, << <<fname \o <<"?">>, field_type.name>> >>)

\* ResolveType reporting an unknown type name with the parameter-count message
ResolveTypeArityMessage(fname, ftype) ==
    IF ~ColTypeField(ftype).ok
        THEN Err(Message(ArityViolationMessage(ftype, 0, <<>>)))
    ELSE Ok([columns |-> << <<fname, ColTypeField(ftype).value>> >>, references |-> <<>>])

\* FieldType::Type
ResolveType(fname, ftype) ==
    LET col_type == ColTypeField(ftype)
    IN  IF ~col_type.ok THEN Err(col_type.err)
        ELSE Ok(Adds(<< <<fname, col_type.value>> >>, <<>>))

\* ResolveTypeWithParameters with the parameter-count check in the arm of the
\* other types only, the array arm relying on its own slice match
ResolveTypeWithParametersArrayUnchecked(fname, ftype, params) ==
    LET col_type == ColTypeField(ftype)
        arity == UnwrapOrDefault(ColTypeArity(ftype))
    IN  IF ~col_type.ok THEN Err(col_type.err)
        ELSE IF ~IsArrayFamily(ftype) /\ Len(params) # arity
            THEN Err(Message(ArityViolationMessage(ftype, arity, params)))
        ELSE LET col == ColumnExpression(ftype, col_type.value, arity, params)
             IN  IF ~col.ok THEN Err(col.err)
                 ELSE Ok([columns |-> << <<fname, col.value>> >>, references |-> <<>>])

\* FieldType::TypeWithParameters
ResolveTypeWithParameters(fname, ftype, params) ==
    LET col_type == ColTypeField(ftype)
        arity == UnwrapOrDefault(ColTypeArity(ftype))
    IN  IF ~col_type.ok THEN Err(col_type.err)
        ELSE IF Len(params) # arity
            THEN Err(Message(ArityViolationMessage(ftype, arity, params)))
        ELSE LET col == ColumnExpression(ftype, col_type.value, arity, params)
             IN  IF ~col.ok THEN Err(col.err)
                 ELSE Ok(Adds(<< <<fname, col.value>> >>, <<>>))

IsReferenceTag(tag) ==
    tag \in {"Reference", "ReferenceWithCustomField", "NullableReference",
             "NullableReferenceWithCustomField"}

\* the registry keys one field looks up (get_mappings is called in the two
\* value-type arms only)
Lookups(field_type) == IF IsReferenceTag(field_type.tag) THEN <<>> ELSE <<field_type.name>>

\* the body of the loop for a field that is not ignored:
\* ret is the outcome, lookups the registry keys it looked up
ResolveField(fname, ftype) ==
    LET parsed == ParseFieldType(ftype)
    IN  IF ~parsed.ok THEN [ret |-> Err(parsed.err), lookups |-> <<>>]
        ELSE LET field_type == parsed.value
             IN  [ret |-> IF IsReferenceTag(field_type.tag)
                              THEN Ok(ResolveReference(fname, field_type))
                          ELSE IF field_type.tag = "Type"
                              THEN ResolveType(fname, field_type.name)
                          ELSE ResolveTypeWithParameters(fname, field_type.name,
                                                         field_type.params),
                  lookups |-> Lookups(field_type)]

\* ResolveLoop going on after a failure and returning the last error
RECURSIVE ResolveLoopLastError(_, _, _, _, _, _)
ResolveLoopLastError(fs, i, columns, references, lookups, warned) ==
    IF i > Len(fs)
        THEN [ret |-> Ok(<<columns, references>>), lookups |-> lookups, warned |-> warned]
    ELSE IF IsIgnored(fs[i][1])
        THEN ResolveLoopLastError(fs, i + 1, columns, references, lookups,
                                  Append(warned, fs[i][1]))
    ELSE LET r == ResolveField(fs[i][1], fs[i][2])
         IN  IF ~r.ret.ok
                 THEN LET rest == ResolveLoopLastError(fs, i + 1, columns, references,
                                                       lookups \o r.lookups, warned)
                      IN  IF rest.ret.ok
                              THEN [ret |-> Err(r.ret.err), lookups |-> rest.lookups,
                                    warned |-> rest.warned]
                          ELSE rest
             ELSE ResolveLoopLastError(fs, i + 1, columns \o r.ret.value.columns,
                                       references \o r.ret.value.references,
                                       lookups \o r.lookups, warned)

\* ResolveLoop putting each new column in front of the earlier ones
RECURSIVE ResolveLoopPrepend(_, _, _, _, _, _)
ResolveLoopPrepend(fs, i, columns, references, lookups, warned) ==
    IF i > Len(fs)
        THEN [ret |-> Ok(<<columns, references>>), lookups |-> lookups, warned |-> warned]
    ELSE IF IsIgnored(fs[i][1])
        THEN ResolveLoopPrepend(fs, i + 1, columns, references, lookups,
                                Append(warned, fs[i][1]))
    ELSE LET r == ResolveField(fs[i][1], fs[i][2])
         IN  IF ~r.ret.ok
                 THEN [ret |-> Err(r.ret.err), lookups |-> lookups \o r.lookups,
                       warned |-> warned]
             ELSE ResolveLoopPrepend(fs, i + 1, r.ret.value.columns \o columns,
                                     references \o r.ret.value.references,
                                     lookups \o r.lookups, warned)

\* the loop over the fields from the i-th on.  warned lists the names the
\* redundant-field warning was logged for.
RECURSIVE ResolveLoop(_, _, _, _, _, _)
ResolveLoop(fs, i, columns, references, lookups, warned) ==
    IF i > Len(fs)
        THEN [ret |-> Ok(<<columns, references>>), lookups |-> lookups, warned |-> warned]
    ELSE IF IsIgnored(fs[i][1])
        THEN ResolveLoop(fs, i + 1, columns, references, lookups, Append(warned, fs[i][1]))
    ELSE LET r == ResolveField(fs[i][1], fs[i][2])
         IN  IF ~r.ret.ok
                 THEN [ret |-> Err(r.ret.err), lookups |-> lookups \o r.lookups,
                       warned |-> warned]
             ELSE ResolveLoop(fs, i + 1, columns \o r.ret.value.columns,
                              references \o r.ret.value.references,
                              lookups \o r.lookups, warned)

GetColumnsAndReferences(fs) == ResolveLoop(fs, 1, <<>>, <<>>, <<>>, <<>>)

----------------------------------------------------------------------------
(* The inputs of generate *)

NmUser == <<"u", "s", "e", "r">>
NmPost == <<"p", "o", "s", "t">>
NmName == <<"n", "a", "m", "e">>
NmTags == <<"t", "a", "g", "s">>
NmCost == <<"c", "o", "s", "t">>
NmPost2 == <<"p", "o", "s", "t", ":", "2">>

\* the field specifications a caller's list is drawn from: the four
\* reference forms, plain and parameterized value types with right and wrong
\* parameter counts, unknown type names, the empty annotation, and the four
\* ignored names with annotations that would fail or resolve elsewhere
FieldChoices ==
    { <<NmUser, KwReferences>>,
      <<NmPost, KwReferencesNullable>>,
      <<NmUser, KwReferences \o <<":", "i", "d">> >>,
      <<NmPost, KwReferencesNullable \o <<":", "i", "d">> >>,
      <<NmName, TyString>>,
      <<NmTags, TyArray \o <<":", "b", "i", "g", "_", "i", "n", "t">> >>,
      <<NmTags, TyArrayNN \o <<":", "s", "t", "r", "i", "n", "g">> >>,
      <<NmTags, TyArrayUniq \o <<":", "s", "t", "r", "i", "n", "g">> >>,
      <<NmTags, TyArrayUniq \o <<":", "a", ":", "b">> >>,
      <<NmName, TyString \o <<":", "2">> >>,
      <<NmCost, TyDecimalLen \o <<":", "1", ":", "2">> >>,
      <<NmName, <<"x", ":", "1">> >>,
      <<NmPost2, <<>> >>,
      <<created_at, TyString \o <<":", "2">> >>,
      <<updated_at, <<>> >>,
      <<create_at, KwReferences>>,
      <<update_at, TyArrayUniq \o <<":", "a", ":", "b">> >> }

FieldLists == UNION {[1..n -> FieldChoices] : n \in 0..MaxFields}

\* what render_template can return: one of two results, or the renderer's error
GenResults == {"gen_a", "gen_b"}

RenderError == [kind |-> "Render"]

\* what std::env::var("SKIP_MIGRATION") can find
EnvStates == {"absent", "empty", "text", "not_unicode"}

\* the Display of the error duct's run() returns
RunError == <<"e", "x", "i", "t", " ", "1">>

----------------------------------------------------------------------------
(* generate *)

None == [none |-> TRUE]

Panic == [panic |-> TRUE]

IoError == [kind |-> "Io"]

\* std::env::var: Ok for a present unicode value, Err(NotPresent) or
\* Err(NotUnicode) otherwise
EnvVar(v) == IF v \in {"empty", "text"} THEN Ok(v) ELSE Err(v)

MigrationError(err) == Message(MigrateMsgHead \o err \o <<Backtick>>)

EntitiesError(err) == Message(EntitiesMsgHead \o err \o <<Backtick>>)

Call(step, ok) == [step |-> step, ok |-> ok]

Init ==
    /\ fields \in FieldLists
    /\ pc = "resolve"
    /\ resolved = None
    /\ calls = <<>>
    /\ gen_result = "none"
    /\ skipVar = "unread"
    /\ result = None

Return(r) == /\ result' = r
             /\ pc' = "done"

\* let (columns, references) = get_columns_and_references(fields)?;
Resolve ==
    /\ pc = "resolve"
    /\ resolved' = GetColumnsAndReferences(fields)
    /\ IF resolved'.ret.ok
           THEN pc' = "render" /\ UNCHANGED result
       ELSE Return(Err(resolved'.ret.err))
    /\ UNCHANGED <<fields, calls, gen_result, skipVar>>

\* let gen_result = render_template(rrgen, Path::new("model"), &vars)?;
Render ==
    /\ pc = "render"
    /\ \/ \E g \in GenResults :
             /\ calls' = Append(calls, Call("render", TRUE))
             /\ gen_result' = g
             /\ pc' = "check_env"
             /\ UNCHANGED result
       \/ /\ calls' = Append(calls, Call("render", FALSE))
          /\ Return(Err(RenderError))
          /\ UNCHANGED gen_result
    /\ UNCHANGED <<fields, resolved, skipVar>>

\* if std::env::var("SKIP_MIGRATION").is_err() { ... } Ok(gen_result)
CheckEnv ==
    /\ pc = "check_env"
    /\ \E v \in EnvStates :
        /\ skipVar' = v
        /\ IF ~EnvVar(v).ok
               THEN pc' = "current_dir" /\ UNCHANGED result
           ELSE Return(Ok(gen_result))
    /\ UNCHANGED <<fields, resolved, calls, gen_result>>

\* let cwd = current_dir()?;
CurrentDir ==
    /\ pc = "current_dir"
    /\ \/ pc' = "env_vars" /\ UNCHANGED result
       \/ Return(Err(IoError))
    /\ UNCHANGED <<fields, resolved, calls, gen_result, skipVar>>

\* let env_map: HashMap<_, _> = std::env::vars().collect();
\* vars() panics on a key or value that is not valid unicode
EnvVars ==
    /\ pc = "env_vars"
    /\ \/ /\ skipVar # "not_unicode"
          /\ pc' = "migrate"
          /\ UNCHANGED result
       \/ Return(Panic)
    /\ UNCHANGED <<fields, resolved, calls, gen_result, skipVar>>

\* Migrate with the failure of the command dropped
MigrateIgnoringFailure ==
    /\ pc = "migrate"
    /\ \E ok \in BOOLEAN : calls' = Append(calls, [step |-> "migrate", ok |-> ok])
    /\ pc' = "entities"
    /\ UNCHANGED <<fields, resolved, gen_result, skipVar, result>>

\* cmd!("cargo", "loco-tool", "db", "migrate").run().map_err(..)?
Migrate ==
    /\ pc = "migrate"
    /\ \/ /\ calls' = Append(calls, Call("migrate", TRUE))
          /\ pc' = "entities"
          /\ UNCHANGED result
       \/ /\ calls' = Append(calls, Call("migrate", FALSE))
          /\ Return(Err(MigrationError(RunError)))
    /\ UNCHANGED <<fields, resolved, gen_result, skipVar>>

\* Entities with the failure of the command dropped
EntitiesIgnoringFailure ==
    /\ pc = "entities"
    /\ \E ok \in BOOLEAN : calls' = Append(calls, [step |-> "entities", ok |-> ok])
    /\ result' = [ok |-> TRUE, value |-> gen_result]
    /\ pc' = "done"
    /\ UNCHANGED <<fields, resolved, gen_result, skipVar>>

\* cmd!("cargo", "loco-tool", "db", "entities").run().map_err(..)?; Ok(gen_result)
Entities ==
    /\ pc = "entities"
    /\ \/ /\ calls' = Append(calls, Call("entities", TRUE))
          /\ Return(Ok(gen_result))
       \/ /\ calls' = Append(calls, Call("entities", FALSE))
          /\ Return(Err(EntitiesError(RunError)))
    /\ UNCHANGED <<fields, resolved, gen_result, skipVar>>

Next == Resolve \/ Render \/ CheckEnv \/ CurrentDir \/ EnvVars \/ Migrate \/ Entities

Spec == Init /\ [][Next]_vars

----------------------------------------------------------------------------
(* Properties of generate *)

Attempted(step) == \E i \in DOMAIN calls : calls[i].step = step

Failed(step) == \E i \in DOMAIN calls : calls[i].step = step /\ ~calls[i].ok

Succeeded(step) == \E i \in DOMAIN calls : calls[i].step = step /\ calls[i].ok

IsPrefix(p, t) == Len(p) <= Len(t) /\ SubSeq(t, 1, Len(p)) = p

IsMessage(r) == "ok" \in DOMAIN r /\ ~r.ok /\ r.err.kind = "Message"

NamesMigration == <<"f", "a", "i", "l", "e", "d", " ", "t", "o", " ", "r", "u", "n", " ",
    "l", "o", "c", "o", " ", "d", "b", " ", "m", "i", "g", "r", "a", "t", "i", "o", "n">>

NamesEntities == <<"f", "a", "i", "l", "e", "d", " ", "t", "o", " ", "r", "u", "n", " ",
    "l", "o", "c", "o", " ", "d", "b", " ", "e", "n", "t", "i", "t", "i", "e", "s">>

\* C1: when the migration step is not skipped the two external invocations
\* are strictly ordered and fail-fast: `db entities` is attempted only after
\* a `db migrate` that was attempted before it and succeeded; if `db migrate`
\* fails, `db entities` is never attempted and generate returns an error whose
\* message names the migration step; if `db migrate` succeeds and
\* `db entities` fails, the error names the entities step.
C1_FailFast ==
    /\ \A i \in DOMAIN calls :
           calls[i].step = "entities" =>
               \E j \in 1..(i - 1) : calls[j].step = "migrate" /\ calls[j].ok
    /\ Failed("migrate") =>
           /\ ~Attempted("entities")
           /\ pc = "done"
           /\ IsMessage(result) /\ IsPrefix(NamesMigration, result.err.text)
    /\ Succeeded("migrate") /\ Failed("entities") =>
           /\ pc = "done"
           /\ IsMessage(result) /\ IsPrefix(NamesEntities, result.err.text)

\* a run whose `db migrate` failed has returned
C1_Witness == pc = "done" /\ Failed("migrate") /\ IsMessage(result)

\* generate returned the renderer's result without entering the block of the
\* two commands
Skipped == pc = "done" /\ result = Ok(gen_result) /\ ~Attempted("migrate")

\* C2: whenever SKIP_MIGRATION is present, whatever its value (empty, any
\* text, any other byte content), generate attempts neither `db migrate` nor
\* `db entities` and returns the renderer's result unchanged; whenever it is
\* absent and rendering succeeded, the migration step is attempted (the block
\* of the two commands is entered).
C2_SkipWheneverPresent ==
    skipVar # "unread" =>
        IF skipVar # "absent"
            THEN /\ ~Attempted("migrate")
                 /\ ~Attempted("entities")
                 /\ pc = "done" /\ result = Ok(gen_result)
        ELSE ~Skipped

\* C10: the steps of generate occur in the order resolve, render, migrate,
\* entities, each only after the previous one succeeded; when generate
\* returns a migration or entities error the renderer has already run to
\* completion, its output stays as produced, and its result is not what
\* generate returns; generate returns Ok, and then the renderer's result,
\* only when every attempted external step succeeded or the step was skipped.
C10_Ordered ==
    /\ IsPrefix([i \in DOMAIN calls |-> calls[i].step], <<"render", "migrate", "entities">>)
    /\ \A i \in DOMAIN calls : i < Len(calls) => calls[i].ok
    /\ calls # <<>> => resolved # None /\ resolved.ret.ok
    /\ Succeeded("render") <=> gen_result \in GenResults
    /\ pc = "done" /\ (Failed("migrate") \/ Failed("entities")) =>
           /\ Succeeded("render")
           /\ ~result.ok
           /\ result.err \in {MigrationError(RunError), EntitiesError(RunError)}
    /\ pc = "done" /\ "ok" \in DOMAIN result /\ result.ok =>
           /\ result.value = gen_result
           /\ \A i \in DOMAIN calls : calls[i].ok
           /\ \/ [i \in DOMAIN calls |-> calls[i].step] = <<"render">>
                    /\ EnvVar(skipVar).ok
              \/ [i \in DOMAIN calls |-> calls[i].step] = <<"render", "migrate", "entities">>

\* generate returned the entities error after render and migrate succeeded
C10_Witness ==
    /\ pc = "done"
    /\ Succeeded("render") /\ Succeeded("migrate") /\ Failed("entities")
    /\ result = Err(EntitiesError(RunError))

----------------------------------------------------------------------------
(* Properties of get_columns_and_references *)

\* the ignore list, as the documentation states it
IgnoredNames == {created_at, updated_at, create_at, update_at}

\* the fields of the input that are not ignored, in input order
Kept == SelectSeq(fields, LAMBDA f : f[1] \notin IgnoredNames)

Classified(f) == ParseFieldType(f[2])

IsReferenceField(f) == Classified(f).ok /\ IsReferenceTag(Classified(f).value.tag)

IsValueField(f) ==
    Classified(f).ok /\ Classified(f).value.tag \in {"Type", "TypeWithParameters"}

\* the field fails when it is resolved on its own
FailsAlone(f) == f[1] \notin IgnoredNames /\ ~ResolveField(f[1], f[2]).ret.ok

\* no field before the i-th kept one fails
Reached(i) == \A j \in 1..(i - 1) : ~FailsAlone(Kept[j])

\* get_columns_and_references has just returned (fields and resolved stay as
\* they are in the later steps of generate)
HasResolved == resolved # None /\ calls = <<>> /\ pc \in {"render", "done"}

RegistryArity(name) ==
    IF \E i \in DOMAIN Mappings : Mappings[i].name = name /\ Mappings[i].arity > 0
        THEN Mappings[CHOOSE i \in DOMAIN Mappings : Mappings[i].name = name].arity
    ELSE 0

\* a parameterized type the registry recognises, with the wrong parameter count
ArityMismatch(f) ==
    LET c == Classified(f)
    IN  /\ c.ok
        /\ c.value.tag = "TypeWithParameters"
        /\ \E i \in DOMAIN Mappings : Mappings[i].name = c.value.name
        /\ Len(c.value.params) # RegistryArity(c.value.name)

StringArityText == <<"t", "y", "p", "e", ":", " ", Backtick, "s", "t", "r", "i", "n", "g",
    Backtick, " ", "r", "e", "q", "u", "i", "r", "e", "s", " ", "s", "p", "e", "c", "i",
    "f", "y", "i", "n", "g", " ", "0", " ", "p", "a", "r", "a", "m", "e", "t", "e", "r",
    "s", ",", " ", "b", "u", "t", " ", "o", "n", "l", "y", " ", "1", " ", "w", "e", "r",
    "e", " ", "g", "i", "v", "e", "n", " ", "(", Backtick, "2", Backtick, ")", ".">>

ArrayUniqArityText == <<"t", "y", "p", "e", ":", " ", Backtick, "a", "r", "r", "a", "y",
    "^", Backtick, " ", "r", "e", "q", "u", "i", "r", "e", "s", " ", "s", "p", "e", "c",
    "i", "f", "y", "i", "n", "g", " ", "1", " ", "p", "a", "r", "a", "m", "e", "t", "e",
    "r", "s", ",", " ", "b", "u", "t", " ", "o", "n", "l", "y", " ", "2", " ", "w", "e",
    "r", "e", " ", "g", "i", "v", "e", "n", " ", "(", Backtick, "a", ",", "b", Backtick,
    ")", ".">>

\* the first of the kept fields from the i-th on that fails alone or has such
\* a parameter count (0 if there is none): the fields before it resolve, so
\* the loop reaches it
RECURSIVE FirstFailingOrMismatch(_, _)
FirstFailingOrMismatch(kept, i) ==
    IF i > Len(kept) THEN 0
    ELSE IF ArityMismatch(kept[i]) \/ FailsAlone(kept[i]) THEN i
    ELSE FirstFailingOrMismatch(kept, i + 1)

\* C3: a field that is resolved and classifies as a parameterized type the
\* registry recognises, with a parameter count other than the registry arity
\* of the type name (0 when the registry has none), makes resolution fail
\* with exactly "type: `<type>` requires specifying <arity> parameters, but
\* only <given> were given (`<comma-joined params>`)."; the array-family
\* names get this same message, not the array arm's own.
C3_ArityMessage ==
    HasResolved =>
        LET kept == Kept
            i == FirstFailingOrMismatch(kept, 1)
        IN  i # 0 /\ ArityMismatch(kept[i]) =>
                LET t == Classified(kept[i]).value
                IN  /\ resolved.ret =
                           Err(Message(ArityViolationMessage(t.name, RegistryArity(t.name),
                                                             t.params)))
                    /\ t.name = TyString /\ t.params = << <<"2">> >> =>
                           resolved.ret.err.text = StringArityText
                    /\ t.name = TyArrayUniq /\ t.params = << <<"a">>, <<"b">> >> =>
                           resolved.ret.err.text = ArrayUniqArityText

\* resolution failed at an array-family field with two parameters, after a
\* field that resolved
C3_Witness ==
    /\ HasResolved
    /\ Len(Kept) >= 2
    /\ Reached(2) /\ ArityMismatch(Kept[2])
    /\ Classified(Kept[2]).value.name = TyArrayUniq
    /\ ~resolved.ret.ok

\* C4: a field named created_at, updated_at, create_at or update_at adds
\* nothing to either list and never makes resolution fail, whatever its
\* annotation; every occurrence is skipped on its own (one warning each) and
\* the other fields resolve as if it were absent.
C4_IgnoredSkipped ==
    HasResolved =>
        /\ LET without == GetColumnsAndReferences(Kept)
           IN  resolved.ret = without.ret /\ resolved.lookups = without.lookups
        /\ resolved.ret.ok =>
               resolved.warned =
                   LET ign == SelectSeq(fields, LAMBDA f : f[1] \in IgnoredNames)
                   IN  [i \in DOMAIN ign |-> ign[i][1]]
        /\ \A i \in DOMAIN resolved.warned : resolved.warned[i] \in IgnoredNames

\* an ignored name was given twice, with an annotation that fails elsewhere,
\* beside a field that resolved to a column
C4_Witness ==
    /\ HasResolved /\ resolved.ret.ok
    /\ Len(resolved.warned) = 2 /\ resolved.warned[1] = resolved.warned[2]
    /\ \E i \in DOMAIN fields : fields[i][1] \in IgnoredNames /\ FailsAlone(<<NmName, fields[i][2]>>)
    /\ Len(resolved.ret.value[1]) = 1

\* the first of the kept fields from the i-th on that fails alone (0 if
\* there is none)
RECURSIVE FirstFailingFrom(_, _)
FirstFailingFrom(kept, i) ==
    IF i > Len(kept) THEN 0
    ELSE IF FailsAlone(kept[i]) THEN i
    ELSE FirstFailingFrom(kept, i + 1)

FirstFailing == FirstFailingFrom(Kept, 1)

SomeFails == FirstFailing # 0

\* C5: resolution has no partial success: if a kept field fails,
\* get_columns_and_references returns only the error of the first failing
\* field in input order, and no lists, even when earlier fields resolved;
\* generate returns that same error without invoking the renderer or either
\* external command.
C5_NoPartialSuccess ==
    HasResolved /\ SomeFails =>
        /\ LET kept == Kept
           IN  resolved.ret = GetColumnsAndReferences(<<kept[FirstFailingFrom(kept, 1)]>>).ret
        /\ ~resolved.ret.ok
        /\ DOMAIN resolved.ret = {"ok", "err"}
        /\ pc = "done"
        /\ result = Err(resolved.ret.err)
        /\ calls = <<>>
        /\ gen_result = "none"

\* generate returned the error of the second of two failing fields' first,
\* after a field that resolved
C5_Witness ==
    /\ pc = "done" /\ HasResolved /\ SomeFails
    /\ Len(Kept) = 3 /\ FirstFailing = 2 /\ FailsAlone(Kept[3])
    /\ GetColumnsAndReferences(<<Kept[2]>>).ret # GetColumnsAndReferences(<<Kept[3]>>).ret

\* the name a reference entry carries: the field name, with "?" appended when
\* the annotation is one of the nullable forms
ExpectedReference(f) ==
    LET parts == Split(f[2], ":")
    IN  << IF parts[1] = KwReferencesNullable THEN f[1] \o <<"?">> ELSE f[1],
           IF Len(parts) = 2 THEN parts[2] ELSE <<>> >>

\* C6: on success every kept field adds exactly one entry to exactly one of
\* the two lists: len(columns) + len(references) is the number of kept
\* fields, the columns are the value-type fields in input order and the
\* references the reference fields in input order, whatever the interleaving;
\* duplicate names are kept.
C6_OneEntryEach ==
    HasResolved /\ resolved.ret.ok =>
        LET columns == resolved.ret.value[1]
            references == resolved.ret.value[2]
            values == SelectSeq(Kept, IsValueField)
            refs == SelectSeq(Kept, IsReferenceField)
        IN  /\ Len(columns) + Len(references) = Len(Kept)
            /\ [i \in DOMAIN columns |-> columns[i][1]]
                   = [i \in DOMAIN values |-> values[i][1]]
            /\ [i \in DOMAIN references |-> references[i][1]]
                   = [i \in DOMAIN refs |-> ExpectedReference(refs[i])[1]]

\* two columns of the same name with a reference between them in the input
C6_Witness ==
    /\ HasResolved /\ resolved.ret.ok
    /\ Len(Kept) = 3 /\ IsValueField(Kept[1]) /\ IsReferenceField(Kept[2])
    /\ IsValueField(Kept[3])
    /\ Len(resolved.ret.value[1]) = 2 /\ Len(resolved.ret.value[2]) = 1
    /\ resolved.ret.value[1][1][1] = resolved.ret.value[1][2][1]

RegistryExpression(name) == Mappings[CHOOSE i \in DOMAIN Mappings : Mappings[i].name = name].col_type

ArrayNullBigInt == <<"a", "r", "r", "a", "y", "_", "n", "u", "l", "l", "(", "A", "r", "r",
    "a", "y", "C", "o", "l", "T", "y", "p", "e", ":", ":", "B", "i", "g", "I", "n", "t",
    ")">>

ArrayString == <<"a", "r", "r", "a", "y", "(", "A", "r", "r", "a", "y", "C", "o", "l", "T",
    "y", "p", "e", ":", ":", "S", "t", "r", "i", "n", "g", ")">>

ArrayUniqString == <<"a", "r", "r", "a", "y", "_", "u", "n", "i", "q", "(", "A", "r", "r",
    "a", "y", "C", "o", "l", "T", "y", "p", "e", ":", ":", "S", "t", "r", "i", "n", "g",
    ")">>

DecimalLenOneTwo == <<"D", "e", "c", "i", "m", "a", "l", "L", "e", "n", "N", "u", "l", "l",
    "(", "1", ",", "2", ")">>

ArrayColTypePath == <<"(", "A", "r", "r", "a", "y", "C", "o", "l", "T", "y", "p", "e", ":",
    ":">>

\* C8: a kept field that classifies as a parameterized type with the
\* registry's parameter count gets, for the base names array, array! and
\* array^, the column expression
\* <registry expression of that name>(ArrayColType::<parameter in UpperCamelCase>),
\* and for any other base name <registry expression>(<parameters joined with
\* commas>); array, array!, array^ give the nullable, non-null and unique
\* array kinds.
C8_ColumnExpressions ==
    HasResolved /\ resolved.ret.ok =>
        LET columns == resolved.ret.value[1]
            values == SelectSeq(Kept, IsValueField)
        IN  /\ Len(columns) = Len(values)
            /\ \A i \in DOMAIN values :
                   LET t == Classified(values[i]).value
                   IN  t.tag = "TypeWithParameters" =>
                        /\ columns[i][2] =
                               IF t.name \in {TyArray, TyArrayNN, TyArrayUniq}
                                   THEN RegistryExpression(t.name) \o ArrayColTypePath
                                            \o ToUpperCamelCase(t.params[1]) \o <<")">>
                               ELSE RegistryExpression(t.name) \o <<"(">>
                                        \o Join(t.params, <<",">>) \o <<")">>
                        /\ t.name = TyArray => columns[i][2] = ArrayNullBigInt
                        /\ t.name = TyArrayNN => columns[i][2] = ArrayString
                        /\ t.name = TyArrayUniq => columns[i][2] = ArrayUniqString
                        /\ t.name = TyDecimalLen => columns[i][2] = DecimalLenOneTwo

\* an array column whose parameter changes under the case conversion, beside
\* a column of another parameterized type
C8_Witness ==
    /\ HasResolved /\ resolved.ret.ok
    /\ Len(resolved.ret.value[1]) >= 2
    /\ resolved.ret.value[1][1][2] = ArrayNullBigInt
    /\ resolved.ret.value[1][2][2] = DecimalLenOneTwo

\* C9: the two failure paths are distinct: the field (`post:2`, empty
\* annotation) fails with the registry's unrecognized-default-field message,
\* not the arity message; the arity message is produced only for a field
\* whose annotation classified as a parameterized value type.
C9_DistinctPaths ==
    HasResolved /\ SomeFails =>
        LET failing == Kept[FirstFailing]
            c == Classified(failing)
        IN  /\ failing = <<NmPost2, <<>> >> =>
                   resolved.ret = Err(ErrorUnrecognizedDefaultField(<<>>))
            /\ IsMessage(resolved.ret) /\ IsPrefix(ArityMsgHead, resolved.ret.err.text) =>
                   c.ok /\ c.value.tag = "TypeWithParameters"
            /\ ~c.ok \/ c.value.tag # "TypeWithParameters" => ~IsMessage(resolved.ret)

\* resolution failed at (`post:2`, ""), after a reference that resolved
C9_Witness ==
    /\ HasResolved /\ SomeFails
    /\ Len(Kept) >= 2 /\ IsReferenceField(Kept[1])
    /\ FirstFailing = 2 /\ Kept[2] = <<NmPost2, <<>> >>
    /\ resolved.ret = Err(ErrorUnrecognizedDefaultField(<<>>))

====
